---- MODULE Spec2Model ----
(***************************************************************************)
(* Entity resolution of the class-based-view browser (cbv/views.py):       *)
(* the detail views look a record up exactly, then case-insensitively,     *)
(* and the sitemap lists every Klass in a fixed order.                     *)
(*                                                                         *)
(* The store (Project -> ProjectVersion -> Module -> Klass) is read-only:  *)
(* it is chosen in Init and never changes.  Every request is handled by a  *)
(* fresh view instance, so one action handles one whole request.           *)
(***************************************************************************)
EXTENDS Integers, Sequences, FiniteSets, TLC

VARIABLES
    versions,        \* rows of ProjectVersion
    modules,         \* rows of Module
    klasses,         \* rows of Klass
    view,            \* class of the view instance serving the request
    kwargs,          \* self.kwargs: the URL's captured arguments
    project_version, \* self.project_version
    object,          \* self.object, the result of get_object
    push_state_url,  \* self.push_state_url
    lookups,         \* the lookups the request has attempted, in order
    context,         \* the context handed to the template
    url,             \* RedirectView's self.url
    status           \* how the request ended

vars == <<versions, modules, klasses, view, kwargs, project_version, object,
          push_state_url, lookups, context, url, status>>

store == <<versions, modules, klasses>>

(***************************************************************************)
(* Bounds of the model.                                                    *)
(***************************************************************************)
\* The store holds at most MaxRows rows in all.
MaxRows == 6

(***************************************************************************)
(* The names that occur in the store, and those that requests ask for:     *)
(* a request may also name a package that no row has.                      *)
(***************************************************************************)
PackageNames == {"Django", "django"}
VersionNumbers == {"1.0", "2.0", "10.0"}
ModuleNames == {"m", "M"}
KlassNames == {"C", "c"}
RequestedPackages == PackageNames \cup {"Flask"}
UrlNames == {"version-detail"}

None == [none |-> TRUE]

\* str.lower(), which decides the __iexact lookups.
Lower(s) ==
    CASE s = "Django" -> "django"
      [] s = "Flask" -> "flask"
      [] s = "M" -> "m"
      [] s = "C" -> "c"
      [] OTHER -> s

iexact(stored, given) == Lower(stored) = Lower(given)

\* Code-point order of the strings, the order of an ascending order_by.
StrRank(s) ==
    CASE s = "C" -> 1
      [] s = "Django" -> 2
      [] s = "Flask" -> 3
      [] s = "M" -> 4
      [] s = "c" -> 5
      [] s = "django" -> 6
      [] s = "m" -> 7
      [] OTHER -> 0

\* ProjectVersion.sortable_version_number, derived from version_number.
SortableVersionNumber(n) ==
    CASE n = "1.0" -> 10000
      [] n = "2.0" -> 20000
      [] n = "10.0" -> 100000
      [] OTHER -> 0

VersionRow(p, n) ==
    [project |-> p, version_number |-> n,
     sortable_version_number |-> SortableVersionNumber(n)]

ModuleRow(pv, n) == [project_version |-> pv, name |-> n]

KlassRow(m, n) == [module |-> m, name |-> n]

VersionUniverse == {VersionRow(p, n) : p \in PackageNames, n \in VersionNumbers}

Bounded(S, n) == {T \in SUBSET S : Cardinality(T) <= n}

(***************************************************************************)
(* QuerySet.get(): the single row of the query, DoesNotExist when there is *)
(* none, MultipleObjectsReturned when there are several.                   *)
(***************************************************************************)
\* A get() that takes the first row when there are several.
GetFirst(rows) ==
    IF rows = {} THEN [tag |-> "DoesNotExist"]
    ELSE [tag |-> "ok", obj |-> CHOOSE r \in rows : TRUE]

Get(rows) ==
    IF rows = {} THEN [tag |-> "DoesNotExist"]
    ELSE IF Cardinality(rows) = 1
         THEN [tag |-> "ok", obj |-> CHOOSE r \in rows : TRUE]
         ELSE [tag |-> "MultipleObjectsReturned"]

(***************************************************************************)
(* Canonical URLs, built from the record's own stored fields.              *)
(***************************************************************************)
KlassAbsoluteUrl(k) ==
    [url_name |-> "klass-detail",
     package |-> k.module.project_version.project,
     version |-> k.module.project_version.version_number,
     module |-> k.module.name,
     klass |-> k.name]

ModuleAbsoluteUrl(m) ==
    [url_name |-> "module-detail",
     package |-> m.project_version.project,
     version |-> m.project_version.version_number,
     module |-> m.name]

\* reverse(url_name, kwargs): the URL of the arguments as given.
reverse(url_name, kw) == [url_name |-> url_name] @@ kw

(***************************************************************************)
(* Outcome of a request: what the view instance holds when it ends.        *)
(***************************************************************************)
Outcome(st, pv, obj, push, looks, ctx, u) ==
    [status |-> st, project_version |-> pv, object |-> obj,
     push_state_url |-> push, lookups |-> looks, context |-> ctx, url |-> u]

(***************************************************************************)
(* KlassDetailView                                                         *)
(***************************************************************************)
\* The precise lookup with the class name compared case-insensitively.
KlassPreciseIexactName(kw) ==
    {k \in klasses :
        /\ iexact(k.name, kw.klass)
        /\ k.module.name = kw.module
        /\ k.module.project_version.version_number = kw.version
        /\ k.module.project_version.project = kw.package}

KlassPreciseQuery(kw) ==
    {k \in klasses :
        /\ k.name = kw.klass
        /\ k.module.name = kw.module
        /\ k.module.project_version.version_number = kw.version
        /\ k.module.project_version.project = kw.package}

\* The fuzzy lookup without its filter on the package name.
KlassFuzzyAnyPackage(kw) ==
    {k \in klasses :
        /\ iexact(k.name, kw.klass)
        /\ iexact(k.module.name, kw.module)
        /\ iexact(k.module.project_version.version_number, kw.version)}

KlassFuzzyQuery(kw) ==
    {k \in klasses :
        /\ iexact(k.name, kw.klass)
        /\ iexact(k.module.name, kw.module)
        /\ iexact(k.module.project_version.version_number, kw.version)
        /\ iexact(k.module.project_version.project, kw.package)}

KlassContext(obj, push) == [object |-> obj, push_state_url |-> push]

\* get_object with the redirect hint built from the request's arguments.
KlassGetObjectUrlFromRequest(kw) ==
    LET precise == Get(KlassPreciseQuery(kw))
        fuzzy == Get(KlassFuzzyQuery(kw))
    IN  IF precise.tag = "ok"
        THEN Outcome("ok", None, precise.obj, None, <<"precise">>,
                     KlassContext(precise.obj, None), None)
        ELSE IF precise.tag # "DoesNotExist"
        THEN Outcome(precise.tag, None, None, None, <<"precise">>, None, None)
        ELSE IF fuzzy.tag = "ok"
        THEN Outcome("ok", None, fuzzy.obj, reverse("klass-detail", kw),
                     <<"precise", "fuzzy">>,
                     KlassContext(fuzzy.obj, reverse("klass-detail", kw)), None)
        ELSE IF fuzzy.tag = "DoesNotExist"
        THEN Outcome("Http404", None, None, None, <<"precise", "fuzzy">>,
                     None, None)
        ELSE Outcome(fuzzy.tag, None, None, None, <<"precise", "fuzzy">>,
                     None, None)

KlassGetObject(kw) ==
    LET precise == Get(KlassPreciseQuery(kw))
        fuzzy == Get(KlassFuzzyQuery(kw))
    IN  IF precise.tag = "ok"
        THEN Outcome("ok", None, precise.obj, None, <<"precise">>,
                     KlassContext(precise.obj, None), None)
        ELSE IF precise.tag # "DoesNotExist"
        THEN Outcome(precise.tag, None, None, None, <<"precise">>, None, None)
        ELSE IF fuzzy.tag = "ok"
        THEN Outcome("ok", None, fuzzy.obj, KlassAbsoluteUrl(fuzzy.obj),
                     <<"precise", "fuzzy">>,
                     KlassContext(fuzzy.obj, KlassAbsoluteUrl(fuzzy.obj)), None)
        ELSE IF fuzzy.tag = "DoesNotExist"
        THEN Outcome("Http404", None, None, None, <<"precise", "fuzzy">>,
                     None, None)
        ELSE Outcome(fuzzy.tag, None, None, None, <<"precise", "fuzzy">>,
                     None, None)

(***************************************************************************)
(* Manager methods of cbv/models.py.                                       *)
(***************************************************************************)
\* ProjectVersion.objects.get_latest(name): the version of the package with
\* the greatest sortable_version_number; DoesNotExist when it has none.
get_latest(name) ==
    LET rows == {v \in versions : v.project = name}
    IN  IF rows = {} THEN [tag |-> "DoesNotExist"]
        ELSE [tag |-> "ok",
              obj |-> CHOOSE v \in rows : \A w \in rows :
                          w.sortable_version_number <= v.sortable_version_number]

\* Klass.objects.get_latest_for_name(klass_name, project_name): the rows the
\* lookup may return, the classes of that name in the latest version of the
\* package, both names compared case-insensitively; none means DoesNotExist.
get_latest_for_name(klass_name, project_name) ==
    LET pvs == {v \in versions : iexact(v.project, project_name)}
        latest == {v \in pvs : \A w \in pvs :
                      w.sortable_version_number <= v.sortable_version_number}
    IN  {k \in klasses : /\ iexact(k.name, klass_name)
                         /\ k.module.project_version \in latest}

(***************************************************************************)
(* LatestKlassDetailView                                                   *)
(***************************************************************************)
\* A precise step that returns the class whose names match exactly.
LatestKlassPreciseByName(kw) ==
    Get({k \in get_latest_for_name(kw.klass, kw.package) :
            k.name = kw.klass /\ k.module.project_version.project = kw.package})

LatestKlassPreciseObject(kw) == [tag |-> "DoesNotExist"]

\* The outcomes get_object may end in, one per row the manager may return.
LatestKlassGetObject(kw) ==
    LET precise == LatestKlassPreciseObject(kw)
        fuzzy == get_latest_for_name(kw.klass, kw.package)
    IN  IF precise.tag = "ok"
        THEN {Outcome("ok", None, precise.obj, None, <<"precise">>,
                      KlassContext(precise.obj, None), None)}
        ELSE IF precise.tag # "DoesNotExist"
        THEN {Outcome(precise.tag, None, None, None, <<"precise">>, None, None)}
        ELSE IF fuzzy = {}
        THEN {Outcome("Http404", None, None, None, <<"precise", "fuzzy">>,
                      None, None)}
        ELSE {Outcome("ok", None, obj, KlassAbsoluteUrl(obj),
                      <<"precise", "fuzzy">>,
                      KlassContext(obj, KlassAbsoluteUrl(obj)), None) :
                  obj \in fuzzy}

(***************************************************************************)
(* ModuleDetailView                                                        *)
(***************************************************************************)
\* The Version filter with exact comparisons.
VersionExactQuery(kw) ==
    {v \in versions : /\ v.version_number = kw.version
                      /\ v.project = kw.package}

VersionFuzzyQuery(kw) ==
    {v \in versions : /\ iexact(v.version_number, kw.version)
                      /\ iexact(v.project, kw.package)}

ModulePreciseQuery(kw, pv) ==
    {m \in modules : m.name = kw.module /\ m.project_version = pv}

ModuleFuzzyQuery(kw) ==
    {m \in modules :
        /\ iexact(m.name, kw.module)
        /\ iexact(m.project_version.version_number, kw.version)
        /\ iexact(m.project_version.project, kw.package)}

ModuleContext(pv, obj, push) ==
    [project_version |-> pv,
     klass_list |-> {k \in klasses : k.module = obj},
     object |-> obj,
     push_state_url |-> push]

ModuleGetObject(kw, pv) ==
    LET precise == Get(ModulePreciseQuery(kw, pv))
        fuzzy == Get(ModuleFuzzyQuery(kw))
    IN  IF precise.tag = "ok"
        THEN Outcome("ok", pv, precise.obj, None, <<"version", "precise">>,
                     ModuleContext(pv, precise.obj, None), None)
        ELSE IF precise.tag # "DoesNotExist"
        THEN Outcome(precise.tag, pv, None, None, <<"version", "precise">>,
                     None, None)
        ELSE IF fuzzy.tag = "ok"
        THEN Outcome("ok", pv, fuzzy.obj, ModuleAbsoluteUrl(fuzzy.obj),
                     <<"version", "precise", "fuzzy">>,
                     ModuleContext(pv, fuzzy.obj, ModuleAbsoluteUrl(fuzzy.obj)),
                     None)
        ELSE IF fuzzy.tag = "DoesNotExist"
        THEN Outcome("Http404", pv, None, None,
                     <<"version", "precise", "fuzzy">>, None, None)
        ELSE Outcome(fuzzy.tag, pv, None, None,
                     <<"version", "precise", "fuzzy">>, None, None)

ModuleGet(kw) ==
    LET pv == Get(VersionFuzzyQuery(kw))
    IN  IF pv.tag = "ok" THEN ModuleGetObject(kw, pv.obj)
        ELSE IF pv.tag = "DoesNotExist"
        THEN Outcome("Http404", None, None, None, <<"version">>, None, None)
        ELSE Outcome(pv.tag, None, None, None, <<"version">>, None, None)

(***************************************************************************)
(* VersionDetailView and HomeView                                          *)
(***************************************************************************)
VersionContext(pv) ==
    [object_list |-> {k \in klasses : k.module.project_version = pv},
     projectversion |-> pv]

\* get_project_version with exact comparisons.
VersionDetailExact(kw) == Get(VersionExactQuery(kw))

VersionDetailProjectVersion(kw) == Get(VersionFuzzyQuery(kw))

HomeProjectVersion == get_latest("Django")

\* VersionDetailView.get, given what get_project_version returned or raised.
VersionGet(pv) ==
    IF pv.tag = "ok"
    THEN Outcome("ok", pv.obj, None, None, <<"version">>,
                 VersionContext(pv.obj), None)
    ELSE IF pv.tag = "DoesNotExist"
    THEN Outcome("Http404", None, None, None, <<"version">>, None, None)
    ELSE Outcome(pv.tag, None, None, None, <<"version">>, None, None)

(***************************************************************************)
(* RedirectToLatestVersionView                                             *)
(***************************************************************************)
RedirectUrl(kw) ==
    LET latest == get_latest(kw.package)
        target == reverse(kw.url_name, [package |-> kw.package,
                                        version |-> latest.obj.version_number])
    IN  IF latest.tag = "ok"
        THEN Outcome("redirect", None, None, None, <<"latest">>, None, target)
        ELSE Outcome(latest.tag, None, None, None, <<"latest">>, None, None)

(***************************************************************************)
(* Sitemap                                                                 *)
(***************************************************************************)
\* The order_by of the sitemap with the version ascending.
KlassBeforeAscending(a, b) ==
    LET pa == StrRank(a.module.project_version.project)
        pb == StrRank(b.module.project_version.project)
        va == a.module.project_version.sortable_version_number
        vb == b.module.project_version.sortable_version_number
        ma == StrRank(a.module.name)
        mb == StrRank(b.module.name)
    IN  \/ pa < pb
        \/ pa = pb /\ va < vb
        \/ pa = pb /\ va = vb /\ ma < mb
        \/ pa = pb /\ va = vb /\ ma = mb /\ StrRank(a.name) <= StrRank(b.name)

\* order_by(project name, -sortable_version_number, module name, name).
KlassBefore(a, b) ==
    LET pa == StrRank(a.module.project_version.project)
        pb == StrRank(b.module.project_version.project)
        va == a.module.project_version.sortable_version_number
        vb == b.module.project_version.sortable_version_number
        ma == StrRank(a.module.name)
        mb == StrRank(b.module.name)
    IN  \/ pa < pb
        \/ pa = pb /\ va > vb
        \/ pa = pb /\ va = vb /\ ma < mb
        \/ pa = pb /\ va = vb /\ ma = mb /\ StrRank(a.name) <= StrRank(b.name)

RECURSIVE OrderedKlasses(_)
OrderedKlasses(rows) ==
    IF rows = {} THEN <<>>
    ELSE LET first == CHOOSE k \in rows : \A j \in rows : KlassBefore(k, j)
         IN  <<first>> \o OrderedKlasses(rows \ {first})

\* The priority decided by the version number alone.
SitemapPriorityByNumber(klass, latest_version) ==
    IF klass.module.project_version.version_number = latest_version.version_number
    THEN "0.9" ELSE "0.5"

SitemapPriority(klass, latest_version) ==
    IF klass.module.project_version = latest_version THEN "0.9" ELSE "0.5"

SitemapUrls(latest_version) ==
    LET ordered == OrderedKlasses(klasses)
    IN  <<[location |-> reverse("home", <<>>), priority |-> "1.0"]>> \o
        [i \in 1..Len(ordered) |->
            [location |-> KlassAbsoluteUrl(ordered[i]),
             priority |-> SitemapPriority(ordered[i], latest_version)]]

SitemapContextData ==
    LET latest == get_latest("Django")
    IN  IF latest.tag = "ok"
        THEN Outcome("ok", None, None, None, <<"latest">>,
                     [urlset |-> SitemapUrls(latest.obj)], None)
        ELSE Outcome(latest.tag, None, None, None, <<"latest">>, None, None)

(***************************************************************************)
(* The state machine.                                                      *)
(***************************************************************************)
\* A store of the data model: every Klass in one Module, every Module in one
\* ProjectVersion, (project, version_number) and the names unique in their parent.
StoreInit ==
    /\ versions \in Bounded(VersionUniverse, MaxRows)
    /\ modules \in Bounded({ModuleRow(pv, n) : pv \in versions, n \in ModuleNames},
                           MaxRows - Cardinality(versions))
    /\ klasses \in Bounded({KlassRow(m, n) : m \in modules, n \in KlassNames},
                           MaxRows - Cardinality(versions) - Cardinality(modules))

Init ==
    /\ StoreInit
    /\ view = "none"
    /\ kwargs = None
    /\ project_version = None
    /\ object = None
    /\ push_state_url = None
    /\ lookups = <<>>
    /\ context = None
    /\ url = None
    /\ status = "idle"

Serve(v, kw, out) ==
    /\ status = "idle"
    /\ view' = v
    /\ kwargs' = kw
    /\ project_version' = out.project_version
    /\ object' = out.object
    /\ push_state_url' = out.push_state_url
    /\ lookups' = out.lookups
    /\ context' = out.context
    /\ url' = out.url
    /\ status' = out.status
    /\ UNCHANGED store

KlassDetail ==
    \E p \in RequestedPackages, n \in VersionNumbers, m \in ModuleNames,
       c \in KlassNames :
        LET kw == [package |-> p, version |-> n, module |-> m, klass |-> c]
        IN  Serve("KlassDetailView", kw, KlassGetObject(kw))

LatestKlassDetail ==
    \E p \in RequestedPackages, c \in KlassNames :
        LET kw == [package |-> p, klass |-> c]
        IN  \E out \in LatestKlassGetObject(kw) :
                Serve("LatestKlassDetailView", kw, out)

ModuleDetail ==
    \E p \in RequestedPackages, n \in VersionNumbers, m \in ModuleNames :
        LET kw == [package |-> p, version |-> n, module |-> m]
        IN  Serve("ModuleDetailView", kw, ModuleGet(kw))

VersionDetail ==
    \E p \in RequestedPackages, n \in VersionNumbers :
        LET kw == [package |-> p, version |-> n]
        IN  Serve("VersionDetailView", kw,
                  VersionGet(VersionDetailProjectVersion(kw)))

Home == Serve("HomeView", <<>>, VersionGet(HomeProjectVersion))

RedirectToLatestVersion ==
    \E p \in RequestedPackages, u \in UrlNames :
        LET kw == [package |-> p, url_name |-> u]
        IN  Serve("RedirectToLatestVersionView", kw, RedirectUrl(kw))

SitemapView == Serve("Sitemap", <<>>, SitemapContextData)

\* The next request is served by a new view instance.
NextRequest ==
    /\ status # "idle"
    /\ view' = "none"
    /\ kwargs' = None
    /\ project_version' = None
    /\ object' = None
    /\ push_state_url' = None
    /\ lookups' = <<>>
    /\ context' = None
    /\ url' = None
    /\ status' = "idle"
    /\ UNCHANGED store

Next ==
    \/ KlassDetail
    \/ LatestKlassDetail
    \/ ModuleDetail
    \/ VersionDetail
    \/ Home
    \/ RedirectToLatestVersion
    \/ SitemapView
    \/ NextRequest

Spec == Init /\ [][Next]_vars

(***************************************************************************)
(* What the requests are measured against: the rows of the store that the  *)
(* request's key tuple equals, and those it equals up to letter case.      *)
(***************************************************************************)
LowerTuple(t) == [i \in DOMAIN t |-> Lower(t[i])]

KlassTuple(k) ==
    <<k.module.project_version.project, k.module.project_version.version_number,
      k.module.name, k.name>>

ModuleTuple(m) ==
    <<m.project_version.project, m.project_version.version_number, m.name>>

VersionTuple(v) == <<v.project, v.version_number>>

ExactKlasses ==
    {k \in klasses : KlassTuple(k) =
        <<kwargs.package, kwargs.version, kwargs.module, kwargs.klass>>}

FuzzyKlasses ==
    {k \in klasses : LowerTuple(KlassTuple(k)) =
        LowerTuple(<<kwargs.package, kwargs.version, kwargs.module, kwargs.klass>>)}

ExactModules ==
    {m \in modules : ModuleTuple(m) =
        <<kwargs.package, kwargs.version, kwargs.module>>}

FuzzyModules ==
    {m \in modules : LowerTuple(ModuleTuple(m)) =
        LowerTuple(<<kwargs.package, kwargs.version, kwargs.module>>)}

ExactVersions ==
    {v \in versions : VersionTuple(v) = <<kwargs.package, kwargs.version>>}

FuzzyVersions ==
    {v \in versions : LowerTuple(VersionTuple(v)) =
        LowerTuple(<<kwargs.package, kwargs.version>>)}

\* The canonical URL of a class, from its stored fields.
StoredKlassUrl(k) ==
    [url_name |-> "klass-detail", package |-> KlassTuple(k)[1],
     version |-> KlassTuple(k)[2], module |-> KlassTuple(k)[3],
     klass |-> KlassTuple(k)[4]]

HomeUrl == [url_name |-> "home"]

\* The fuzzy lookup runs right after a precise lookup and is the last one.
FuzzyOnlyAfterPrecise ==
    \A i \in 1..Len(lookups) :
        lookups[i] = "fuzzy" =>
            /\ i > 1
            /\ lookups[i - 1] = "precise"
            /\ i = Len(lookups)

(***************************************************************************)
(* C1: on the Module page, a request whose (package, version) equals no    *)
(* stored Version but equals exactly one up to letter case, and whose      *)
(* module name identifies a Module of that Version, resolves and reports   *)
(* a redirect (push_state_url is not None), also when the module name      *)
(* matches exactly.                                                        *)
(***************************************************************************)
C1_ModuleRedirectOnVersionMismatch ==
    ( /\ view = "ModuleDetailView"
      /\ ExactVersions = {}
      /\ Cardinality(FuzzyVersions) = 1
      /\ Cardinality(FuzzyModules) = 1 )
    => ( /\ status = "ok"
         /\ object \in FuzzyModules
         /\ context.push_state_url # None )

(***************************************************************************)
(* C2: on the Class-by-path page, a request that equals the stored tuple   *)
(* of exactly one Class yields that Class with no redirect hint, also      *)
(* when other Classes equal the tuple up to letter case.                   *)
(***************************************************************************)
C2_ExactMatchNoRedirect ==
    ( /\ view = "KlassDetailView"
      /\ Cardinality(ExactKlasses) = 1 )
    => ( /\ status = "ok"
         /\ object \in ExactKlasses
         /\ push_state_url = None
         /\ context = [object |-> object, push_state_url |-> None] )

C2_Witness ==
    /\ view = "KlassDetailView"
    /\ Cardinality(ExactKlasses) = 1
    /\ Cardinality(FuzzyKlasses) > 1
    /\ status = "ok"
    /\ push_state_url = None

(***************************************************************************)
(* C3: on the Class-by-path page, a request that equals no Class exactly   *)
(* but exactly one up to letter case yields that Class with a redirect     *)
(* hint, and the hint is the canonical URL of the Class's stored values,   *)
(* not of the request's values.                                            *)
(***************************************************************************)
C3_FuzzyMatchRedirectsToStoredUrl ==
    ( /\ view = "KlassDetailView"
      /\ ExactKlasses = {}
      /\ Cardinality(FuzzyKlasses) = 1 )
    => ( /\ status = "ok"
         /\ object \in FuzzyKlasses
         /\ push_state_url = StoredKlassUrl(object)
         /\ push_state_url # [url_name |-> "klass-detail"] @@ kwargs
         /\ context = [object |-> object, push_state_url |-> push_state_url] )

C3_Witness ==
    /\ view = "KlassDetailView"
    /\ ExactKlasses = {}
    /\ Cardinality(FuzzyKlasses) = 1
    /\ status = "ok"
    /\ push_state_url # None
    /\ push_state_url.package # kwargs.package
    /\ push_state_url.klass # kwargs.klass

UrlStrictlyBefore(a, b) ==
    \/ StrRank(a.package) < StrRank(b.package)
    \/ /\ a.package = b.package
       /\ SortableVersionNumber(a.version) > SortableVersionNumber(b.version)
    \/ /\ a.package = b.package /\ a.version = b.version
       /\ StrRank(a.module) < StrRank(b.module)
    \/ /\ a.package = b.package /\ a.version = b.version /\ a.module = b.module
       /\ StrRank(a.klass) < StrRank(b.klass)

ExampleKlass(n) == KlassRow(ModuleRow(VersionRow("Django", n), "m"), "C")

ExampleStore ==
    /\ versions = {VersionRow("Django", "1.0"), VersionRow("Django", "2.0")}
    /\ klasses = {ExampleKlass("1.0"), ExampleKlass("2.0")}

C5_SitemapOrder ==
    ( view = "Sitemap" /\ status = "ok" )
    => LET u == context.urlset
       IN  /\ Len(u) = Cardinality(klasses) + 1
           /\ u[1].location = HomeUrl
           /\ {u[i].location : i \in 2..Len(u)} = {StoredKlassUrl(k) : k \in klasses}
           /\ \A i, j \in 2..Len(u) :
                  i < j => UrlStrictlyBefore(u[i].location, u[j].location)
           /\ ExampleStore =>
                  [i \in 1..Len(u) |-> u[i].location] =
                      <<HomeUrl, StoredKlassUrl(ExampleKlass("2.0")),
                        StoredKlassUrl(ExampleKlass("1.0"))>>

C5_Witness ==
    /\ view = "Sitemap"
    /\ status = "ok"
    /\ ExampleStore
    /\ Len(context.urlset) = 3

(***************************************************************************)
(* C6: in the sitemap the home entry has priority 1.0, and a Class entry   *)
(* has priority 0.9 exactly when its Version is the Version of package     *)
(* "Django" with the greatest sortable_version_number, and 0.5 otherwise.  *)
(***************************************************************************)
LexRank(n) ==
    CASE n = "1.0" -> 1
      [] n = "10.0" -> 2
      [] n = "2.0" -> 3
      [] OTHER -> 0

IsLatestDjango(loc) ==
    /\ loc.package = "Django"
    /\ \A v \in versions :
           v.project = "Django" =>
               SortableVersionNumber(v.version_number)
                   <= SortableVersionNumber(loc.version)

C6_SitemapPriority ==
    ( view = "Sitemap" /\ status = "ok" )
    => LET u == context.urlset
       IN  /\ u[1].priority = "1.0"
           /\ \A i \in 2..Len(u) :
                  u[i].priority = IF IsLatestDjango(u[i].location)
                                  THEN "0.9" ELSE "0.5"

\* Django's 10.0 is the latest although "2.0" is the greater string.
C6_Witness ==
    /\ view = "Sitemap"
    /\ status = "ok"
    /\ \E i, j \in 2..Len(context.urlset) :
           /\ context.urlset[i].location.package = "Django"
           /\ context.urlset[j].location.package = "Django"
           /\ LexRank(context.urlset[i].location.version)
                  < LexRank(context.urlset[j].location.version)
           /\ context.urlset[i].priority = "0.9"
           /\ context.urlset[j].priority = "0.5"

(***************************************************************************)
(* C7: when the latest-version lookup fails because the package has no     *)
(* versions, the home page, the redirect to the latest version and the     *)
(* sitemap all end in Http404 and in no other error.                       *)
(***************************************************************************)
C7_LatestMissIsNotFound ==
    /\ ( /\ view \in {"HomeView", "Sitemap"}
         /\ \A v \in versions : v.project # "Django" )
        => status = "Http404"
    /\ ( /\ view = "RedirectToLatestVersionView"
         /\ \A v \in versions : v.project # kwargs.package )
        => status = "Http404"

(***************************************************************************)
(* C8: when the fuzzy lookup of a Class, Module or Version matches several *)
(* rows, the page resolves with one of them, without error or Http404.     *)
(***************************************************************************)
KlassFuzzyAmbiguous ==
    /\ view = "KlassDetailView"
    /\ ExactKlasses = {}
    /\ Cardinality(FuzzyKlasses) > 1

VersionFuzzyAmbiguous ==
    /\ view \in {"ModuleDetailView", "VersionDetailView"}
    /\ Cardinality(FuzzyVersions) > 1

ModuleFuzzyAmbiguous ==
    /\ view = "ModuleDetailView"
    /\ Cardinality(FuzzyVersions) = 1
    /\ \A m \in FuzzyModules : m.name # kwargs.module
    /\ Cardinality(FuzzyModules) > 1

C10_LatestKlassAlwaysRedirects ==
    view = "LatestKlassDetailView"
    => /\ lookups = <<"precise", "fuzzy">>
       /\ status \in {"ok", "Http404"}
       /\ status = "ok"
            => /\ object \in klasses
               /\ Lower(object.name) = Lower(kwargs.klass)
               /\ Lower(KlassTuple(object)[1]) = Lower(kwargs.package)
               /\ push_state_url = StoredKlassUrl(object)
               /\ context = [object |-> object, push_state_url |-> push_state_url]
       /\ status = "Http404"
            => object = None /\ push_state_url = None /\ context = None

C10_Witness ==
    /\ view = "LatestKlassDetailView"
    /\ status = "ok"
    /\ object.name = kwargs.klass
    /\ KlassTuple(object)[1] = kwargs.package
    /\ push_state_url = StoredKlassUrl(object)

====
